---- MODULE Spec2Model ----
(***************************************************************************)
(* TelegramService (src/src/services/telegram.ts): the outbound            *)
(* notification queue.  sendNotification pushes an appointment and starts  *)
(* processQueue when the isProcessingQueue flag is clear; processQueue     *)
(* shifts appointments one at a time, waits for the rate limit, formats,   *)
(* sends, and on a failure either drops the appointment (format error) or  *)
(* puts it back at the front, pauses and leaves the loop.                  *)
(*                                                                         *)
(* JavaScript runs each piece of code between two awaits without           *)
(* interruption, so one action is one such piece: a call of                *)
(* sendNotification (with the start of processQueue up to its first        *)
(* await), the continuation after each of the three awaits, and the        *)
(* passing of time.  Time is in milliseconds.                              *)
(***************************************************************************)
EXTENDS Integers, Sequences, FiniteSets, TLC

\* ---------------------------------------------------------------- bounds
MaxEvents == 3      \* calls of sendNotification in one behaviour
MaxClock == 10      \* the clock stops advancing here
MaxLoops == 2       \* processQueue activations that can exist at once
MaxLen == 3         \* length of the strings given to escapeHtml

\* ------------------------------------------------- configuration values
RateLimit == 20000  \* config.telegram.rateLimit, messages per minute
RetryAfter == 2     \* config.telegram.retryAfter, ms

\* requiredDelay of processQueue, in ms
RequiredDelay == (60 * 1000) \div RateLimit

Loops == 1..MaxLoops
NoAppointment == [seq |-> 0, id |-> 0, codes |-> FALSE]

\* A VisaAppointment as far as the queue reads it: its id (only logged),
\* and whether country_code and mission_code are present.  seq numbers the
\* call of sendNotification that enqueued it (not a field of the program).
Ids == {7}
Appointment(n) == [seq : {n}, id : Ids, codes : BOOLEAN]

\* bot.telegram.sendMessage resolves, or it rejects with an Error whose
\* message is one of these (as a sequence of parts).
ErrorMessages ==
    { <<"400: ", "Bad Request", ": ", "can't parse entities", ": Unsupported start tag">>,
      <<"400: ", "Bad Request", ": chat not found">>,
      <<"429: Too Many Requests: retry after 5">>,
      <<"request to https://api.telegram.org failed, reason: ETIMEDOUT">> }

\* errorMessage.includes(part)
Includes(errorMessage, part) == \E i \in 1..Len(errorMessage) : errorMessage[i] = part

VARIABLES
    messageQueue,        \* this.messageQueue
    isProcessingQueue,   \* this.isProcessingQueue
    lastMessageSentAt,   \* this.lastMessageSentAt
    clock,               \* Date.now()
    pc,                  \* per activation of processQueue: where it is suspended
    appointment,         \* per activation: its local const appointment
    wakeAt,              \* per activation: when its setTimeout fires
    enqueued,            \* history: number of sendNotification calls
    accepted,            \* history: number of those that returned true
    log,                 \* history: the sendMessage calls, in call order
    threw,               \* history: seq of the appointments whose formatting threw
    calledDuring,        \* history: what processQueue was doing at the last call
                         \* of sendNotification
    text,                \* the argument of a call of escapeHtml
    escaped,             \* what that call returned
    returned             \* whether it has returned

vars == <<messageQueue, isProcessingQueue, lastMessageSentAt, clock, pc,
          appointment, wakeAt, enqueued, accepted, log, threw, calledDuring,
          text, escaped, returned>>

\* The variables of the call of escapeHtml, and those of the queue
textVars == <<text, escaped, returned>>
queueVars == <<messageQueue, isProcessingQueue, lastMessageSentAt, clock, pc,
               appointment, wakeAt, enqueued, accepted, log, threw, calledDuring>>

\* ------------------------------------------------------------- helpers

\* this.messageQueue.push(appointment)
PushFront(q, a) == <<a>> \o q
PushUnlessKnown(q, a) == IF \E k \in 1..Len(q) : q[k].id = a.id THEN q ELSE Append(q, a)
Push(q, a) == Append(q, a)

\* this.messageQueue.unshift(appointment)
UnshiftBack(q, a) == Append(q, a)
Unshift(q, a) == <<a>> \o q

\* if (!this.isProcessingQueue) in sendNotification
AlwaysStart(flag) == TRUE
ShouldStart(flag) == ~flag

\* The time processQueue waits before a send: requiredDelay minus the time
\* since the last successful send, when that is positive; 0 is no wait.
NoRateDelay(now, last) == 0
RateDelay(now, last) ==
    IF now - last < RequiredDelay THEN RequiredDelay - (now - last) ELSE 0

\* The argument of the setTimeout after a requeue
NoRetryDelay == RetryAfter \div 1000
RetryDelay == RetryAfter

\* The catch block's test: true when the appointment is requeued
RetryAlways(errorMessage) == TRUE
ShouldRetry(errorMessage) ==
    /\ ~Includes(errorMessage, "can't parse entities")
    /\ ~Includes(errorMessage, "Bad Request")

\* The two kinds of rejection the catch block tells apart, as the history
\* records them: a format error carries one of the two texts.
Kind(errorMessage) ==
    IF \/ Includes(errorMessage, "can't parse entities")
       \/ Includes(errorMessage, "Bad Request")
    THEN "content" ELSE "transient"

\* formatMessage throws a TypeError at country_code.toUpperCase() or
\* mission_code.toUpperCase() when the field is absent; every other field
\* is guarded.
FormatThrows(a) == ~a.codes

\* ------------------------------------------- pieces of processQueue

\* From formatMessage to the await of sendMessage, for appointment a.
\* A throw of formatMessage leaves processQueue (its promise is rejected
\* and discarded by `void`); the flag keeps its value.
Attempt(a, q, now, lg, th) ==
    IF FormatThrows(a)
    THEN [queue |-> q, running |-> TRUE, pc |-> "idle", appointment |-> NoAppointment,
          wakeAt |-> 0, log |-> lg, threw |-> th \cup {a.seq}]
    ELSE [queue |-> q, running |-> TRUE, pc |-> "sending", appointment |-> a,
          wakeAt |-> 0, threw |-> th,
          log |-> Append(lg, [seq |-> a.seq, start |-> now, end |-> now, res |-> "pending"])]

\* The while test of processQueue
LoopTestInclusive(q) == Len(q) >= 0
LoopTest(q) == Len(q) > 0

\* this.messageQueue.shift(): the first element and the rest; on an empty
\* array shift returns undefined and leaves the array empty.
Shift(q) ==
    IF Len(q) = 0 THEN [appointment |-> NoAppointment, rest |-> q]
    ELSE [appointment |-> Head(q), rest |-> Tail(q)]

\* From the while test to the first await of the iteration (or to the end
\* of processQueue when the test fails).  When shift returns undefined the
\* `continue` leads back to the same test on the same queue without an
\* await: the activation stays in that cycle ("continue").
Iteration(q, last, now, lg, th) ==
    IF ~LoopTest(q)
    THEN [queue |-> q, running |-> FALSE, pc |-> "idle", appointment |-> NoAppointment,
          wakeAt |-> 0, log |-> lg, threw |-> th]
    ELSE IF Shift(q).appointment = NoAppointment
         THEN [queue |-> Shift(q).rest, running |-> TRUE, pc |-> "continue",
               appointment |-> NoAppointment, wakeAt |-> 0, log |-> lg, threw |-> th]
         ELSE IF RateDelay(now, last) > 0
              THEN [queue |-> Shift(q).rest, running |-> TRUE, pc |-> "ratewait",
                    appointment |-> Shift(q).appointment,
                    wakeAt |-> now + RateDelay(now, last),
                    log |-> lg, threw |-> th]
              ELSE Attempt(Shift(q).appointment, Shift(q).rest, now, lg, th)

\* The activation record a new call of processQueue gets
FreeLoop == CHOOSE l \in Loops : pc[l] = "idle" /\ \A k \in Loops : pc[k] = "idle" => l <= k

\* Assign the result r of a piece of processQueue run by activation l
Resume(l, r) ==
    /\ messageQueue' = r.queue
    /\ isProcessingQueue' = r.running
    /\ pc' = [pc EXCEPT ![l] = r.pc]
    /\ appointment' = [appointment EXCEPT ![l] = r.appointment]
    /\ wakeAt' = [wakeAt EXCEPT ![l] = r.wakeAt]
    /\ log' = r.log
    /\ threw' = r.threw

\* ------------------------------------------------------------- actions

QueueInit ==
    /\ messageQueue = <<>>
    /\ isProcessingQueue = FALSE
    /\ lastMessageSentAt = 0
    /\ clock = RequiredDelay
    /\ pc = [l \in Loops |-> "idle"]
    /\ appointment = [l \in Loops |-> NoAppointment]
    /\ wakeAt = [l \in Loops |-> 0]
    /\ enqueued = 0
    /\ accepted = 0
    /\ log = <<>>
    /\ threw = {}
    /\ calledDuring = "none"

\* The service after construction; no call of escapeHtml is looked at
Init ==
    /\ QueueInit
    /\ text = <<>>
    /\ escaped = <<>>
    /\ returned = FALSE

\* What the activations of processQueue are doing
Activity ==
    IF \E l \in Loops : pc[l] # "idle"
    THEN pc[CHOOSE l \in Loops : pc[l] # "idle"]
    ELSE "idle"

\* sendNotification(a), with the call of processQueue up to its first await
SendNotification(a) ==
    /\ enqueued < MaxEvents
    /\ enqueued' = enqueued + 1
    /\ accepted' = accepted + 1
    /\ calledDuring' = Activity
    /\ UNCHANGED textVars
    /\ UNCHANGED <<lastMessageSentAt, clock>>
    /\ IF ShouldStart(isProcessingQueue)
       THEN /\ \E l \in Loops : pc[l] = "idle"
            /\ Resume(FreeLoop, Iteration(Push(messageQueue, a), lastMessageSentAt,
                                          clock, log, threw))
       ELSE /\ messageQueue' = Push(messageQueue, a)
            /\ UNCHANGED <<isProcessingQueue, pc, appointment, wakeAt, log, threw>>

\* The rate-limit setTimeout of activation l fires
RateLimitElapsed(l) ==
    /\ pc[l] = "ratewait"
    /\ clock >= wakeAt[l]
    /\ Resume(l, Attempt(appointment[l], messageQueue, clock, log, threw))
    /\ UNCHANGED <<lastMessageSentAt, clock, enqueued, accepted, calledDuring>>
    /\ UNCHANGED textVars

\* The entry of log for the send that activation l awaits
InFlight(l) == CHOOSE i \in 1..Len(log) :
                  log[i].res = "pending" /\ log[i].seq = appointment[l].seq

Finish(lg, i, res) == [lg EXCEPT ![i] = [@ EXCEPT !.end = clock, !.res = res]]

\* sendMessage resolves for activation l
SendResolvedNoStamp(l) ==
    /\ pc[l] = "sending"
    /\ Resume(l, Iteration(messageQueue, lastMessageSentAt, clock,
                           Finish(log, InFlight(l), "ok"), threw))
    /\ UNCHANGED <<lastMessageSentAt, clock, enqueued, accepted, calledDuring>>
    /\ UNCHANGED textVars
SendResolved(l) ==
    /\ pc[l] = "sending"
    /\ lastMessageSentAt' = clock
    /\ Resume(l, Iteration(messageQueue, clock, clock,
                           Finish(log, InFlight(l), "ok"), threw))
    /\ UNCHANGED <<clock, enqueued, accepted, calledDuring>>
    /\ UNCHANGED textVars

\* sendMessage rejects for activation l with an Error(errorMessage)
SendRejected(l, errorMessage) ==
    /\ pc[l] = "sending"
    /\ UNCHANGED <<lastMessageSentAt, clock, enqueued, accepted, calledDuring>>
    /\ UNCHANGED textVars
    /\ IF ShouldRetry(errorMessage)
       THEN /\ messageQueue' = Unshift(messageQueue, appointment[l])
            /\ pc' = [pc EXCEPT ![l] = "retrypause"]
            /\ appointment' = [appointment EXCEPT ![l] = NoAppointment]
            /\ wakeAt' = [wakeAt EXCEPT ![l] = clock + RetryDelay]
            /\ log' = Finish(log, InFlight(l), Kind(errorMessage))
            /\ UNCHANGED <<isProcessingQueue, threw>>
       ELSE Resume(l, Iteration(messageQueue, lastMessageSentAt, clock,
                                Finish(log, InFlight(l), Kind(errorMessage)), threw))

\* The retry setTimeout of activation l fires: break, and the flag is cleared
RetryPauseElapsed(l) ==
    /\ pc[l] = "retrypause"
    /\ clock >= wakeAt[l]
    /\ isProcessingQueue' = FALSE
    /\ pc' = [pc EXCEPT ![l] = "idle"]
    /\ wakeAt' = [wakeAt EXCEPT ![l] = 0]
    /\ UNCHANGED <<messageQueue, lastMessageSentAt, clock, appointment,
                   enqueued, accepted, log, threw, calledDuring>>
    /\ UNCHANGED textVars

\* A millisecond passes
Tick ==
    /\ clock < MaxClock
    /\ clock' = clock + 1
    /\ UNCHANGED <<messageQueue, isProcessingQueue, lastMessageSentAt, pc,
                   appointment, wakeAt, enqueued, accepted, log, threw, calledDuring>>
    /\ UNCHANGED textVars

Next ==
    \/ \E a \in Appointment(enqueued + 1) : SendNotification(a)
    \/ \E l \in Loops : RateLimitElapsed(l)
    \/ \E l \in Loops : SendResolved(l)
    \/ \E l \in Loops, m \in ErrorMessages : SendRejected(l, m)
    \/ \E l \in Loops : RetryPauseElapsed(l)
    \/ Tick

Spec == Init /\ [][Next]_vars

TypeOK ==
    /\ isProcessingQueue \in BOOLEAN
    /\ clock \in RequiredDelay..MaxClock
    /\ lastMessageSentAt \in 0..MaxClock
    /\ \A l \in Loops : pc[l] \in {"idle", "ratewait", "sending", "retrypause", "continue"}
    /\ enqueued \in 0..MaxEvents

\* ------------------------------------------------------------ escapeHtml

\* A string is a sequence of characters
Chars == {"&", "<", ">", "\"", "'", "a", ";"}
Texts == UNION {[1..n -> Chars] : n \in 0..MaxLen}

\* text.replace(/c/g, by): every occurrence of the character c, left to
\* right, replaced by the string by
RECURSIVE ReplaceAll(_, _, _)
ReplaceAll(str, c, by) ==
    IF Len(str) = 0 THEN <<>>
    ELSE (IF Head(str) = c THEN by ELSE <<Head(str)>>) \o ReplaceAll(Tail(str), c, by)

Amp == <<"&", "a", "m", "p", ";">>
Lt == <<"&", "l", "t", ";">>
Gt == <<"&", "g", "t", ";">>
Quot == <<"&", "q", "u", "o", "t", ";">>
Apos == <<"&", "#", "3", "9", ";">>

\* escapeHtml with the ampersand replaced last
escapeHtmlAmpLast(str) ==
    IF Len(str) = 0 THEN <<>>
    ELSE ReplaceAll(ReplaceAll(ReplaceAll(ReplaceAll(ReplaceAll(str,
            "<", Lt), ">", Gt), "\"", Quot), "'", Apos), "&", Amp)

\* escapeHtml: '' for an empty text, else the five replacements in the
\* order of the code, each on the result of the one before
escapeHtml(str) ==
    IF Len(str) = 0 THEN <<>>
    ELSE ReplaceAll(ReplaceAll(ReplaceAll(ReplaceAll(ReplaceAll(str,
            "&", Amp), "<", Lt), ">", Gt), "\"", Quot), "'", Apos)

\* A call of escapeHtml on any text of the bounded alphabet
TextInit ==
    /\ QueueInit
    /\ text \in Texts
    /\ escaped = <<>>
    /\ returned = FALSE

EscapeHtmlCall ==
    /\ ~returned
    /\ escaped' = escapeHtml(text)
    /\ returned' = TRUE
    /\ UNCHANGED text
    /\ UNCHANGED queueVars

TextNext == EscapeHtmlCall

TextSpec == TextInit /\ [][TextNext]_vars

\* ------------------------------------------------------------- claims

Attempts == 1..Len(log)
Active == {l \in Loops : pc[l] # "idle"}
Sends(res) == {i \in Attempts : log[i].res = res}

\* C1: while no send has failed, the sendMessage calls are made for the
\* appointments in the order of their sendNotification calls: the i-th call
\* is for the i-th appointment enqueued.
C1_FifoWithoutFailure ==
    (Sends("transient") = {} /\ Sends("content") = {})
        => \A i \in Attempts : log[i].seq = i

\* Three appointments delivered, the last one enqueued while the loop was
\* suspended in the rate-limit wait.
C1_Witness ==
    /\ Len(log) = 3
    /\ Sends("ok") = 1..3
    /\ calledDuring = "ratewait"

\* C2: any two successful sends are at least requiredDelay apart, measured
\* between their completions and between their starts, whatever failed
\* attempts and loop restarts lie between them.
C2_RateBound ==
    \A i, j \in Sends("ok") :
        i < j => /\ log[j].end - log[i].end >= RequiredDelay
                 /\ log[j].start - log[i].start >= RequiredDelay
                 /\ log[j].start - log[i].end >= RequiredDelay

\* Two successes with a transient failure between them.
C2_Witness ==
    /\ Len(log) = 3
    /\ log[1].res = "ok" /\ log[2].res = "transient" /\ log[3].res = "ok"

\* C3: at most one activation of processQueue exists at any time, and at
\* most one sendMessage call is in flight.
C3_SingleConsumer ==
    /\ Cardinality(Active) <= 1
    /\ Cardinality(Sends("pending")) <= 1

\* sendNotification was called during a retry pause, and the loop is still
\* the only one.
C3_Witness ==
    /\ calledDuring = "retrypause"
    /\ Cardinality(Active) = 1
    /\ Len(messageQueue) >= 2

\* C4: a requeued appointment is attempted again after the retry pause even
\* when sendNotification is never called again, so the service never rests
\* (no activation, flag clear) with a requeued appointment still in the queue
\* behind a transient failure as the last attempt.
C4_RetriedWithoutEnqueue ==
    ~ /\ Active = {}
      /\ ~isProcessingQueue
      /\ messageQueue # <<>>
      /\ Len(log) > 0
      /\ log[Len(log)].res = "transient"

\* C5: the attempt that follows a transient failure of an appointment is for
\* that same appointment, whatever was enqueued behind it and whenever; and
\* until that attempt the appointment is at the front of the queue.
C5_RetryFirst ==
    /\ \A i \in Sends("transient") :
          i < Len(log) => log[i + 1].seq = log[i].seq
    /\ (Len(log) > 0 /\ log[Len(log)].res = "transient")
          => (messageQueue # <<>> /\ Head(messageQueue).seq = log[Len(log)].seq)

\* E failed with F and G enqueued behind it (G during the retry pause) and
\* is being sent again while F and G wait.
C5_Witness ==
    /\ Len(log) = 2
    /\ log[1].res = "transient" /\ log[1].seq = 1
    /\ log[2].res = "pending" /\ log[2].seq = 1
    /\ Len(messageQueue) = 2
    /\ messageQueue[1].seq = 2 /\ messageQueue[2].seq = 3

\* The sendMessage call of activation l ends with a format error in this step
ContentErrorStep(l) ==
    /\ pc[l] = "sending"
    /\ Len(log') = Len(log) \/ Len(log') = Len(log) + 1
    /\ \E i \in Attempts : log[i].res = "pending" /\ log'[i].res = "content"

\* C6 as stated: an appointment whose send fails with a format error is
\* sent exactly once in all.
C6_AttemptedExactlyOnce ==
    \A i \in Sends("content") :
        Cardinality({j \in Attempts : log[j].seq = log[i].seq}) = 1

\* C6, amended: an appointment whose send fails with a format error is not
\* sent again after that failure and is neither in the queue nor held
\* afterwards; the step that handles the error starts no retry pause and,
\* in the same activation, takes the next appointment from the queue (or
\* ends the loop when the queue is empty).
C6_ContentErrorDropped ==
    /\ [](\A i \in Sends("content") :
            /\ \A j \in Attempts : log[j].seq = log[i].seq => j <= i
            /\ \A k \in 1..Len(messageQueue) : messageQueue[k].seq # log[i].seq
            /\ \A l \in Loops : appointment[l].seq # log[i].seq)
    /\ [][\A l \in Loops : ContentErrorStep(l) =>
            /\ pc'[l] # "retrypause"
            /\ lastMessageSentAt' = lastMessageSentAt
            /\ IF messageQueue = <<>>
               THEN pc'[l] = "idle" /\ ~isProcessingQueue' /\ messageQueue' = <<>>
               ELSE /\ messageQueue' = Tail(messageQueue)
                    /\ isProcessingQueue'
                    /\ \/ /\ pc'[l] \in {"ratewait", "sending"}
                          /\ appointment'[l] = Head(messageQueue)
                       \/ /\ pc'[l] = "idle"
                          /\ threw' = threw \cup {Head(messageQueue).seq}]_vars

\* The first appointment was dropped after a format error and the same loop
\* is sending the second one, with no time passed in between.
C6_Witness ==
    /\ Len(log) = 2
    /\ log[1].res = "content" /\ log[2].res = "pending"
    /\ log[2].start = log[1].end
    /\ pc[1] = "sending"

\* Whether this step, a call of sendNotification, started processQueue
Started ==
    \/ \E l \in Loops : pc[l] = "idle" /\ pc'[l] # "idle"
    \/ threw' # threw

\* C7: every call of sendNotification returns true; it changes nothing but
\* the queue, to which it appends its appointment, and it starts a drain
\* loop exactly when none is running (the loop then takes the front
\* appointment at once).
C7_EnqueueContract ==
    [][enqueued' # enqueued =>
        /\ accepted' = accepted + 1
        /\ enqueued' = enqueued + 1
        /\ lastMessageSentAt' = lastMessageSentAt
        /\ Started <=> (Active = {})
        /\ \E a \in Appointment(enqueued') :
              messageQueue' = IF Started THEN Tail(Append(messageQueue, a))
                              ELSE Append(messageQueue, a)]_vars

\* C8: a call of sendNotification made while the loop is suspended in the
\* rate-limit wait or in the retry pause leaves the queue as it was with
\* the new appointment appended at the back.
C8_EnqueueWhileSuspended ==
    [][(enqueued' # enqueued /\ \E l \in Loops : pc[l] \in {"ratewait", "retrypause"})
         => /\ \E a \in Appointment(enqueued') : messageQueue' = Append(messageQueue, a)
            /\ pc' = pc /\ appointment' = appointment]_vars

\* Two calls during a retry pause: the requeued appointment is still first.
C8_Witness ==
    /\ calledDuring = "retrypause"
    /\ pc[1] = "retrypause"
    /\ Len(messageQueue) = 3
    /\ \A k \in 1..3 : messageQueue[k].seq = k

\* C9: no sendMessage call starts less than retryAfter after a transient
\* failure; during the pause the failed appointment is at the front of the
\* queue and the flag stays set, and when the pause ends the activation
\* ends, clearing the flag and leaving the queue alone.
C9_RetryPause ==
    /\ [](\A i \in Sends("transient") : \A j \in Attempts :
            i < j => log[j].start >= log[i].end + RetryAfter)
    /\ [](\A l \in Loops : pc[l] = "retrypause" =>
            /\ isProcessingQueue
            /\ wakeAt[l] = log[Len(log)].end + RetryAfter
            /\ log[Len(log)].res = "transient"
            /\ Head(messageQueue).seq = log[Len(log)].seq)
    /\ [][\A l \in Loops : (pc[l] = "retrypause" /\ pc'[l] # "retrypause") =>
            /\ clock >= wakeAt[l]
            /\ pc'[l] = "idle"
            /\ ~isProcessingQueue'
            /\ messageQueue' = messageQueue]_vars

\* An appointment failed, another was enqueued during the pause, and a
\* later call restarted the loop, which is sending the failed one again.
C9_Witness ==
    /\ Len(log) = 2
    /\ log[1].res = "transient" /\ log[2].res = "pending"
    /\ log[2].start >= log[1].end + RetryAfter
    /\ enqueued = 3

\* Number of places appointment n is in
InQueue(n) == Cardinality({k \in 1..Len(messageQueue) : messageQueue[k].seq = n})
Held(n) == Cardinality({l \in Loops : appointment[l].seq = n})
Delivered(n) == Cardinality({i \in Sends("ok") : log[i].seq = n})
Dropped(n) == Cardinality({i \in Sends("content") : log[i].seq = n})

\* C10: every appointment enqueued is in exactly one place: in the queue
\* once, held by the loop, delivered once, or dropped after a format error.
C10_ExactlyOnePlace ==
    \A n \in 1..enqueued : InQueue(n) + Held(n) + Delivered(n) + Dropped(n) = 1

\* C11: formatMessage returns a string for every appointment, also one with
\* absent text fields, so no activation of processQueue ends through a throw
\* of formatMessage.
C11_FormattingNeverThrows == threw = {}

\* The escaped form of one character
Entity(c) ==
    CASE c = "&" -> Amp
      [] c = "<" -> Lt
      [] c = ">" -> Gt
      [] c = "\"" -> Quot
      [] c = "'" -> Apos
      [] OTHER -> <<c>>

\* Each character of str replaced by its escaped form, once, in place
RECURSIVE EscapedOnce(_)
EscapedOnce(str) ==
    IF Len(str) = 0 THEN <<>> ELSE Entity(Head(str)) \o EscapedOnce(Tail(str))

\* C12: escapeHtml returns its argument with each of & < > " ' replaced by
\* its escaped form exactly once (an ampersand that a replacement brought in
\* is not escaped again) and every other character unchanged in its place.
C12_EscapedExactlyOnce == returned => escaped = EscapedOnce(text)

\* A text with an ampersand after a character whose escaped form brings in
\* an ampersand, and a plain character.
C12_Witness ==
    /\ returned
    /\ text = <<"<", "&", "a">>
    /\ escaped = Lt \o Amp \o <<"a">>

\* C13: isProcessingQueue is true exactly while an activation of
\* processQueue exists.
C13_FlagIffActive == isProcessingQueue <=> (Active # {})

\* The last successful send before attempt j, or 0
LastOkBefore(j) ==
    IF \E i \in Sends("ok") : i < j
    THEN CHOOSE i \in Sends("ok") : i < j /\ \A k \in Sends("ok") : k < j => k <= i
    ELSE 0

\* C14: also with transient failures and calls at any suspension point, the
\* successful sends are in enqueue order, and a send is attempted for an
\* appointment only when every appointment enqueued before it has been
\* delivered or dropped.
C14_HeadOfLine ==
    /\ \A i, j \in Sends("ok") : i < j => log[i].seq < log[j].seq
    /\ \A j \in Attempts : \A n \in 1..(log[j].seq - 1) :
          \E i \in 1..(j - 1) : log[i].seq = n /\ log[i].res \in {"ok", "content"}

\* The first appointment failed while two more were enqueued, and was
\* then delivered before the second.
C14_Witness ==
    /\ Len(log) = 3
    /\ log[1].res = "transient" /\ log[1].seq = 1
    /\ log[2].res = "ok" /\ log[2].seq = 1
    /\ log[3].res = "ok" /\ log[3].seq = 2
    /\ enqueued = 3

\* C15 (its final state): when no send failed transiently and no activation
\* of processQueue is left, the queue is empty, the flag is false and every
\* appointment enqueued has been delivered or dropped.
C15_DrainedAtExit ==
    (Active = {} /\ Sends("transient") = {}) =>
        /\ messageQueue = <<>>
        /\ ~isProcessingQueue
        /\ \A n \in 1..enqueued : Delivered(n) + Dropped(n) = 1

\* C16: lastMessageSentAt is 0 until a send succeeds and afterwards the
\* completion time of the last successful send; a step changes it only by
\* completing a send successfully, to the clock, and never to a lower value.
C16_LastSentAt ==
    /\ [](lastMessageSentAt =
            IF Sends("ok") = {} THEN 0 ELSE log[LastOkBefore(Len(log) + 1)].end)
    /\ [][lastMessageSentAt' # lastMessageSentAt =>
            /\ \E i \in Attempts : log[i].res = "pending" /\ log'[i].res = "ok"
            /\ lastMessageSentAt' = clock
            /\ lastMessageSentAt' > lastMessageSentAt]_vars
    /\ [][(\/ enqueued' # enqueued
           \/ \E l \in Loops : pc[l] \in {"ratewait", "retrypause"} /\ pc'[l] # pc[l]
           \/ \E i \in Attempts : log[i].res = "pending"
                                    /\ log'[i].res \in {"content", "transient"})
            => lastMessageSentAt' = lastMessageSentAt]_vars

\* A success, then a format error and a transient failure with its pause
\* over, the time of the success still recorded.
C16_Witness ==
    /\ Len(log) = 3
    /\ log[1].res = "ok" /\ log[2].res = "content" /\ log[3].res = "transient"
    /\ Active = {}
    /\ lastMessageSentAt = log[1].end
    /\ clock > lastMessageSentAt

\* C17: every sendMessage call, first attempt or retry, successful or not,
\* starts at least requiredDelay after the completion of the last successful
\* send before it; failed sends in between do not count.
C17_AttemptAfterDelay ==
    \A j \in Attempts :
        LastOkBefore(j) # 0 => log[j].start >= log[LastOkBefore(j)].end + RequiredDelay

\* A retry that starts right when requiredDelay after the last success is
\* over, although a failed send ended later than that success.
C17_Witness ==
    /\ Len(log) = 3
    /\ log[1].res = "ok" /\ log[2].res = "content"
    /\ log[3].start = log[1].end + RequiredDelay
    /\ log[3].start - log[2].end < RequiredDelay

\* C18: appointments with the same id are not merged: every call of
\* sendNotification adds an entry of its own, which is in the queue, held,
\* sent or lost to a formatting throw; and when the loop has ended with the
\* flag clear and no send has failed, there are as many sends and as many
\* deliveries as calls.
C18_NoDeduplication ==
    /\ \A k \in 1..Len(messageQueue) : messageQueue[k].id \in Ids
    /\ {messageQueue[k].seq : k \in 1..Len(messageQueue)}
         \cup {appointment[l].seq : l \in Active}
         \cup {log[i].seq : i \in Attempts}
         \cup threw
         \cup {0} = 0..enqueued
    /\ (Active = {} /\ ~isProcessingQueue
        /\ Sends("transient") = {} /\ Sends("content") = {})
          => Len(log) = enqueued /\ Cardinality(Sends("ok")) = enqueued

\* Three calls with the same id, three deliveries.
C18_Witness ==
    /\ enqueued = 3
    /\ Cardinality(Ids) = 1
    /\ Cardinality(Sends("ok")) = 3
    /\ Active = {}

\* C19: shift is never executed on an empty queue, so no activation of
\* processQueue takes the `continue` of an absent appointment.
C19_NeverShiftsEmpty ==
    /\ \A l \in Loops : pc[l] # "continue"
    /\ \A l \in Active : pc[l] \in {"ratewait", "sending"} => appointment[l] # NoAppointment

\* The loop has gone round after a delivery and shifted the last appointment
\* out of the queue.
C19_Witness ==
    /\ pc[1] = "ratewait"
    /\ appointment[1].seq = 2
    /\ messageQueue = <<>>
    /\ Sends("ok") = {1}

====
